---- MODULE Spec2Model ----
(***************************************************************************)
(* Bug Pattern Detective: the lexical ranker of the Streamlit UI           *)
(* (bug_detective_ui.py) and the embedding-backed retrieval of             *)
(* BugPatternDetective (bug_detective.py).                                 *)
(*                                                                         *)
(* The two files are two programs: the UI never imports bug_detective.py. *)
(* `program` says which of them a behaviour runs.                          *)
(*                                                                         *)
(* Text is a sequence of characters, each character a one-character       *)
(* string, so that lower-casing, substring tests, splitting and joining   *)
(* are computed and not assumed.                                           *)
(***************************************************************************)
EXTENDS Integers, Sequences, FiniteSets, TLC

VARIABLES
    program,        \* "ui" (bug_detective_ui.py) or "detective" (bug_detective.py)
    bugs_database,  \* st.session_state.bugs_database: a list of dicts
    uploaded_file,  \* the file in the sidebar's uploader, or NoUpload
    collection,     \* the ChromaDB collection: id -> [document, metadata]
    call,           \* the call in progress and its arguments; NoCall between calls
    results,        \* what the last search returned
    origin,         \* for each result, where it came from (database index / store id)
    scores,         \* simple_search: the value of `score` after each loop iteration
    raised          \* whether the last operation raised

vars == <<program, bugs_database, uploaded_file, collection, call, results, origin, scores, raised>>

-----------------------------------------------------------------------------
(* Python values *)

\* None, where a string is expected (a sequence no text equals).
None == <<"<None>">>

\* Truthiness of an optional string: None and "" are falsy.
Truthy(s) == s # None /\ s # <<>>

UpperCase == <<"A","B","C","D","E","F","G","H","I","J","K","L","M",
               "N","O","P","Q","R","S","T","U","V","W","X","Y","Z">>
LowerCase == <<"a","b","c","d","e","f","g","h","i","j","k","l","m",
               "n","o","p","q","r","s","t","u","v","w","x","y","z">>

ToLower == [c \in {UpperCase[i] : i \in 1..26} |->
               LowerCase[CHOOSE i \in 1..26 : UpperCase[i] = c]]

LowerChar(c) == IF c \in DOMAIN ToLower THEN ToLower[c] ELSE c

\* str.lower()
lower(s) == [i \in 1..Len(s) |-> LowerChar(s[i])]

\* Python's `x in s` for strings
Contains(x, s) ==
    \E i \in 1..(Len(s) - Len(x) + 1) : SubSeq(s, i, i + Len(x) - 1) = x

IsSpace(c) == c \in {" ", "\n", "\t"}

\* Length of the leading run of non-whitespace characters of s.
RunLen(s) ==
    IF \E i \in 1..Len(s) : IsSpace(s[i])
    THEN (CHOOSE i \in 1..Len(s) :
              IsSpace(s[i]) /\ \A j \in 1..(i - 1) : ~IsSpace(s[j])) - 1
    ELSE Len(s)

\* str.split() with no argument: the maximal runs of non-whitespace.
RECURSIVE split(_)
split(s) ==
    IF s = <<>> THEN <<>>
    ELSE IF IsSpace(Head(s)) THEN split(Tail(s))
    ELSE <<SubSeq(s, 1, RunLen(s))>> \o split(SubSeq(s, RunLen(s) + 1, Len(s)))

\* sep.join(xs)
RECURSIVE join(_, _)
join(sep, xs) ==
    IF xs = <<>> THEN <<>>
    ELSE IF Len(xs) = 1 THEN xs[1]
    ELSE xs[1] \o sep \o join(sep, Tail(xs))

\* dict.copy() followed by d[key] = value
SetItem(d, key, value) ==
    [f \in DOMAIN d \cup {key} |-> IF f = key THEN value ELSE d[f]]

Min(a, b) == IF a < b THEN a ELSE b

\* Both programs are single-threaded and synchronous: an operation starts
\* when no call is in progress, and what it returned is held until Return.
NoCall == [op |-> "none"]

Idle == call = NoCall

-----------------------------------------------------------------------------
(* bug_detective_ui.py: the sample data *)

\* The texts of the sample records are shortened to the initials of their
\* first two words ("TypeError: 'NoneType' object ..." is "T N", the tag
\* "dictionary" is "d"); the number of records, their order, their languages,
\* frameworks, sources and confidence scores are the file's.  The fields the
\* ranker never reads (problem_description, solution) are opaque values.
PYTHON == <<"p","y","t","h","o","n">>
JAVASCRIPT == <<"j","a","v","a","s","c","r","i","p","t">>

create_sample_bugs_python ==
    <<
      [error_pattern |-> <<"T"," ","N">>, context |-> <<"A"," ","d">>,
       language |-> PYTHON, framework |-> "None",
       problem_description |-> "py1.problem", solution |-> "py1.solution",
       source |-> "stackoverflow", confidence_score |-> 85,
       tags |-> <<<<"e">>, <<"n">>, <<"d">>>>],
      [error_pattern |-> <<"M"," ","N">>, context |-> <<"P"," ","i">>,
       language |-> PYTHON, framework |-> "None",
       problem_description |-> "py2.problem", solution |-> "py2.solution",
       source |-> "stackoverflow", confidence_score |-> 90,
       tags |-> <<<<"i">>, <<"p">>, <<"i">>>>],
      [error_pattern |-> <<"I"," ","e">>, context |-> <<"P"," ","f">>,
       language |-> PYTHON, framework |-> "None",
       problem_description |-> "py3.problem", solution |-> "py3.solution",
       source |-> "stackoverflow", confidence_score |-> 95,
       tags |-> <<<<"s">>, <<"i">>, <<"p">>>>],
      [error_pattern |-> <<"K"," ","k">>, context |-> <<"A"," ","d">>,
       language |-> PYTHON, framework |-> "None",
       problem_description |-> "py4.problem", solution |-> "py4.solution",
       source |-> "stackoverflow", confidence_score |-> 88,
       tags |-> <<<<"d">>, <<"k">>, <<"e">>>>],
      [error_pattern |-> <<"A"," ","l">>, context |-> <<"C"," ","m">>,
       language |-> PYTHON, framework |-> "None",
       problem_description |-> "py5.problem", solution |-> "py5.solution",
       source |-> "stackoverflow", confidence_score |-> 80,
       tags |-> <<<<"d">>, <<"d">>, <<"a">>>>]
    >>

create_sample_bugs_javascript ==
    <<
      [error_pattern |-> <<"T"," ","C">>, context |-> <<"T"," ","t">>,
       language |-> JAVASCRIPT, framework |-> "react",
       problem_description |-> "js1.problem", solution |-> "js1.solution",
       source |-> "stackoverflow", confidence_score |-> 92,
       tags |-> <<<<"r">>, <<"a">>, <<"u">>>>],
      [error_pattern |-> <<"R"," ","v">>, context |-> <<"U"," ","u">>,
       language |-> JAVASCRIPT, framework |-> "None",
       problem_description |-> "js2.problem", solution |-> "js2.solution",
       source |-> "stackoverflow", confidence_score |-> 90,
       tags |-> <<<<"v">>, <<"s">>, <<"d">>>>],
      [error_pattern |-> <<"S"," ","U">>, context |-> <<"J"," ","p">>,
       language |-> JAVASCRIPT, framework |-> "None",
       problem_description |-> "js3.problem", solution |-> "js3.solution",
       source |-> "stackoverflow", confidence_score |-> 85,
       tags |-> <<<<"s">>, <<"p">>, <<"b">>>>]
    >>

-----------------------------------------------------------------------------
(* bug_detective_ui.py: simple_search *)

\* Lines 165-178 read bug['error_pattern'], bug['language'] (only when a
\* language is given: `and` short-circuits), bug['context'] and bug['tags']
\* (only when the query has a token: the generators' bodies run once per
\* token).  A missing key raises KeyError.
KeyError(bug, query_lower, language) ==
    \/ "error_pattern" \notin DOMAIN bug
    \/ Truthy(language) /\ "language" \notin DOMAIN bug
    \/ split(query_lower) # <<>> /\ "context" \notin DOMAIN bug
    \/ split(query_lower) # <<>> /\ "tags" \notin DOMAIN bug

\* Line 165, were the test made token by token.
PatternMatches_any_token(bug, query_lower) ==
    \E w \in 1..Len(split(query_lower)) :
        Contains(split(query_lower)[w], lower(bug.error_pattern))

\* Line 165: query_lower in bug['error_pattern'].lower()
PatternMatches(bug, query_lower) ==
    Contains(query_lower, lower(bug.error_pattern))

\* Line 169: language and bug['language'].lower() == language.lower()
LanguageMatches(bug, language) ==
    Truthy(language) /\ lower(bug.language) = lower(language)

\* any(word in text for word in query_lower.split())
AnyWordIn(query_lower, text) ==
    \E word \in {split(query_lower)[w] : w \in 1..Len(split(query_lower))} :
        Contains(word, text)

\* Line 173
ContextMatches(bug, query_lower) ==
    split(query_lower) # <<>> /\ AnyWordIn(query_lower, lower(bug.context))

\* Line 177
TagsMatch(bug, query_lower) ==
    split(query_lower) # <<>>
      /\ AnyWordIn(query_lower, lower(join(<<" ">>, bug.tags)))

\* score, were the entry's error pattern compared without .lower().
score_pattern_case_sensitive(bug, query_lower, language) ==
      (IF Contains(query_lower, bug.error_pattern) THEN 50 ELSE 0)
    + (IF LanguageMatches(bug, language) THEN 20 ELSE 0)
    + (IF ContextMatches(bug, query_lower) THEN 10 ELSE 0)
    + (IF TagsMatch(bug, query_lower) THEN 10 ELSE 0)

score_tags_bonus_five(bug, query_lower, language) ==
      (IF PatternMatches(bug, query_lower) THEN 50 ELSE 0)
    + (IF LanguageMatches(bug, language) THEN 20 ELSE 0)
    + (IF ContextMatches(bug, query_lower) THEN 10 ELSE 0)
    + (IF TagsMatch(bug, query_lower) THEN 5 ELSE 0)

\* The value of `score` at line 180.
score(bug, query_lower, language) ==
      (IF PatternMatches(bug, query_lower) THEN 50 ELSE 0)
    + (IF LanguageMatches(bug, language) THEN 20 ELSE 0)
    + (IF ContextMatches(bug, query_lower) THEN 10 ELSE 0)
    + (IF TagsMatch(bug, query_lower) THEN 10 ELSE 0)

\* Line 180, were the test `score >= 0`.
Included_zero_too(r) == r.bug.relevance_score >= 0

\* Line 180: which scored records are appended to `results`.
Included(r) == r.bug.relevance_score > 0

\* list.sort(key=lambda x: x['relevance_score'], reverse=True): Python's sort
\* is stable, and reverse=True keeps the original order of equal keys.
\* Insert x behind every element whose key is at least x's.
RECURSIVE InsertByScore(_, _)
InsertByScore(sorted, x) ==
    IF sorted = <<>> THEN <<x>>
    ELSE IF Head(sorted).bug.relevance_score >= x.bug.relevance_score
         THEN <<Head(sorted)>> \o InsertByScore(Tail(sorted), x)
         ELSE <<x>> \o sorted

\* An ascending stable sort that is then reversed: equal keys end up in
\* reverse insertion order.
RECURSIVE sort_then_reverse(_)
sort_then_reverse(list) ==
    IF list = <<>> THEN <<>>
    ELSE InsertByScore(sort_then_reverse(Tail(list)), Head(list))

RECURSIVE sort_reverse(_)
sort_reverse(list) ==
    IF list = <<>> THEN <<>>
    ELSE InsertByScore(sort_reverse(SubSeq(list, 1, Len(list) - 1)),
                       list[Len(list)])

\* results[:3]
TopN == 3
\* results[-3:] in place of results[:3]
Truncate_tail(list) == SubSeq(list, Len(list) - Min(TopN, Len(list)) + 1, Len(list))

Truncate(list) == SubSeq(list, 1, Min(TopN, Len(list)))

bug_copy_is_the_record(bug, relevance) ==
    [stored |-> SetItem(bug, "relevance_score", relevance),
     copy   |-> SetItem(bug, "relevance_score", relevance)]

\* Lines 181-182: bug.copy(), and the key relevance_score set on the copy.
\* `stored` is the record of the database after that, `copy` the new record.
bug_copy(bug, relevance) ==
    [stored |-> bug, copy |-> SetItem(bug, "relevance_score", relevance)]

\* simple_search(error_query, language) over the database db.  `ranked` pairs
\* each returned copy with the database index of the record it was copied
\* from; `db` is the database after the call.
simple_search(db, error_query, language) ==
    LET query_lower == lower(error_query)
        bad     == {i \in 1..Len(db) : KeyError(db[i], query_lower, language)}
        stop    == IF bad = {} THEN Len(db) + 1
                   ELSE CHOOSE i \in bad : \A j \in bad : i <= j
        made    == [i \in 1..(stop - 1) |->
                       bug_copy(db[i], score(db[i], query_lower, language))]
        scored  == [i \in 1..(stop - 1) |-> [idx |-> i, bug |-> made[i].copy]]
    IN  [raised |-> bad # {},
         scores |-> [i \in 1..(stop - 1) |-> scored[i].bug.relevance_score],
         ranked |-> IF bad # {} THEN <<>>
                    ELSE Truncate(sort_reverse(SelectSeq(scored, Included))),
         db     |-> [i \in 1..Len(db) |->
                        IF i < stop /\ Included(scored[i])
                        THEN made[i].stored ELSE db[i]]]

-----
(* bug_detective_ui.py: the inputs of the model *)

\* The most records the database holds in the model (the code sets no limit).
MaxDatabase == 5

\* JSON files the user uploads.  json.load gives their content unchecked.
ScenarioFile ==
    <<
      [error_pattern |-> <<"x"," ","a">>, context |-> <<"s">>,
       language |-> PYTHON, framework |-> "None",
       problem_description |-> "f1.problem", solution |-> "f1.solution",
       source |-> "personal", confidence_score |-> 50,
       tags |-> <<<<"u">>>>],
      [error_pattern |-> <<"x"," ","b">>, context |-> <<"s">>,
       language |-> JAVASCRIPT, framework |-> "None",
       problem_description |-> "f2.problem", solution |-> "f2.solution",
       source |-> "personal", confidence_score |-> 50,
       tags |-> <<<<"u">>>>],
      [error_pattern |-> <<"x"," ","c">>, context |-> <<"b">>,
       language |-> JAVASCRIPT, framework |-> "django",
       problem_description |-> "f3.problem", solution |-> "f3.solution",
       source |-> "personal", confidence_score |-> 50,
       tags |-> <<<<"b">>, <<"x">>>>]
    >>

\* Upper-case letters in every field the ranker reads, and two one-letter tags.
MixedCaseFile ==
    <<
      [error_pattern |-> <<"A","B">>, context |-> <<"x"," ","A","B">>,
       language |-> <<"J","a","v","a","S","c","r","i","p","t">>,
       framework |-> "None",
       problem_description |-> "f4.problem", solution |-> "f4.solution",
       source |-> "personal", confidence_score |-> 70,
       tags |-> <<<<"A">>, <<"b">>>>, url |-> "None"]
    >>

\* A well-formed record followed by one without tags, problem_description,
\* solution, source and confidence_score.
PartialRecordFile ==
    <<
      [error_pattern |-> <<"t"," ","n">>, context |-> <<"N">>,
       language |-> PYTHON, framework |-> "None",
       problem_description |-> "f5.problem", solution |-> "f5.solution",
       source |-> "personal", confidence_score |-> 60,
       tags |-> <<<<"t">>>>],
      [error_pattern |-> <<"t">>, context |-> <<"n">>, language |-> PYTHON]
    >>

UploadedFiles == {ScenarioFile, MixedCaseFile, PartialRecordFile}

\* Query texts: empty, blank, one token, a whole error pattern, two tokens in
\* another order, a token that spans two tags, the scenario's text, upper case.
ErrorQueries ==
    { <<>>, <<" ">>, <<"t">>, <<"T"," ","N">>, <<"n"," ","t">>,
      <<"a","b">>, <<"x"," ","b">>, <<"B">> }

\* Language hints: absent, empty, and two of the select box's languages (the
\* select box capitalises them).
LanguageHints ==
    { None, <<>>, <<"P","y","t","h","o","n">>, JAVASCRIPT }

-----------------------------------------------------------------------------------------------------------------------------------------------------------------------------------------------------------------------------
(* bug_detective.py: texts                                                 *)
(*                                                                         *)
(* A text of this program is a sequence of pieces: a piece is one          *)
(* character (" ", ":", "\n", ",") or a run of word characters written as  *)
(* one string ("Type", "Error", "x").  "Error" and "Exception" are always  *)
(* pieces of their own, so "TypeError" is <<"Type", "Error">>.             *)

\* \w of the regular expressions: the pieces made of word characters.
IsWord(c) == c \notin {" ", "\n", "\t", ":", ",", "'", ".", "-"}

LineEnd_dot_matches_newline(text, i) == Len(text)

\* The index of the last piece of the line piece i is on.
LineEnd(text, i) ==
    IF \E e \in i..Len(text) : text[e] = "\n"
    THEN (CHOOSE e \in i..Len(text) :
              text[e] = "\n" /\ \A j \in i..(e - 1) : text[j] # "\n") - 1
    ELSE Len(text)

\* `keyword: .+` matches at piece k: the keyword, a colon, a space and at least
\* one more character of the same line.
KeywordAt(text, k, keyword) ==
    /\ k >= 1 /\ k + 3 <= Len(text)
    /\ text[k] = keyword /\ text[k + 1] = ":" /\ text[k + 2] = " "
    /\ text[k + 3] # "\n"

\* Where re.search(pattern, text) can start a match.  With prefixed, the
\* pattern is \w+keyword: .+ (one or more word characters before the keyword).
MatchStarts(text, keyword, prefixed) ==
    LET labels == {k \in 1..Len(text) : KeywordAt(text, k, keyword)}
    IN  IF prefixed
        THEN {i \in 1..Len(text) :
                 \E k \in labels :
                     k > i /\ \A j \in i..(k - 1) : IsWord(text[j])}
        ELSE labels

patterns_exception_first ==
    << [keyword |-> "Exception", prefixed |-> TRUE],
       [keyword |-> "Error", prefixed |-> TRUE],
       [keyword |-> "Exception", prefixed |-> FALSE],
       [keyword |-> "Error", prefixed |-> FALSE] >>

\* The patterns of lines 185-190, in the order of the list.
patterns ==
    << [keyword |-> "Error", prefixed |-> TRUE],
       [keyword |-> "Exception", prefixed |-> TRUE],
       [keyword |-> "Error", prefixed |-> FALSE],
       [keyword |-> "Exception", prefixed |-> FALSE] >>

\* error_text[:200] keeps 200 characters; the texts of the model are shorter
\* than that or made of one-character pieces.
FallbackChars == 200

\* extract_error_pattern(error_text), lines 182-197.  re.search returns the
\* leftmost match; .+ runs to the end of the line, so group(1) is the text from
\* the start of the match to the end of its line.
extract_error_pattern(error_text) ==
    LET matching == {p \in 1..Len(patterns) :
                        MatchStarts(error_text, patterns[p].keyword,
                                    patterns[p].prefixed) # {}}
    IN  IF matching = {}
        THEN SubSeq(error_text, 1, Min(FallbackChars, Len(error_text)))
        ELSE LET p      == CHOOSE p \in matching : \A o \in matching : p <= o
                 starts == MatchStarts(error_text, patterns[p].keyword,
                                       patterns[p].prefixed)
                 i      == CHOOSE i \in starts : \A j \in starts : i <= j
             IN  SubSeq(error_text, i, LineEnd(error_text, i))

\* The twelve spaces that start every line of the f-string of lines 205-211.
Indent == [i \in 1..12 |-> " "]

\* searchable_text of index_bugs, lines 205-211.
searchable_text(bug) ==
    <<"\n">> \o Indent \o <<"Error", ":", " ">> \o bug.error_pattern
      \o <<"\n">> \o Indent \o <<"Context", ":", " ">> \o bug.context
      \o <<"\n">> \o Indent \o <<"Language", ":", " ">> \o bug.language
      \o <<"\n">> \o Indent \o <<"Problem", ":", " ">> \o bug.problem_description
      \o <<"\n">> \o Indent \o <<"Tags", ":", " ">> \o join(<<",", " ">>, bug.tags)
      \o <<"\n">> \o Indent

\* search_text of search_similar_bugs, lines 232-234.
search_text(error_pattern, language) ==
    <<"Error", ":", " ">> \o error_pattern
      \o (IF Truthy(language)
          THEN <<" ", "Language", ":", " ">> \o language
          ELSE <<>>)

to_dict_without_url(bug) ==
    [error_pattern |-> bug.error_pattern, context |-> bug.context,
     language |-> bug.language, framework |-> bug.framework,
     problem_description |-> bug.problem_description,
     solution |-> bug.solution, source |-> bug.source,
     confidence_score |-> bug.confidence_score, tags |-> bug.tags]

\* BugEntry.to_dict, lines 34-46.
to_dict(bug) ==
    [error_pattern |-> bug.error_pattern, context |-> bug.context,
     language |-> bug.language, framework |-> bug.framework,
     problem_description |-> bug.problem_description,
     solution |-> bug.solution, source |-> bug.source,
     confidence_score |-> bug.confidence_score, tags |-> bug.tags,
     url |-> bug.url]

-----------------------------------------------------------------------------
(* bug_detective.py: the vector store                                      *)
(*                                                                         *)
(* The embedding of a text is an opaque vector that depends on the text    *)
(* alone: the store keeps the document in its place, and each query draws  *)
(* the cosine distance of every stored document from the query.  Distances *)
(* and similarities are in hundredths.                                     *)

\* f"bug_{idx}_{bug.source}", line 221
bug_id(idx, bug) == <<"bug", idx, bug.source>>

\* collection.add(embeddings, documents, metadatas, ids), lines 217-222:
\* ChromaDB's add leaves a record whose id the collection already holds as
\* it is (upsert is the call that replaces).
collection_add(coll, id, document, metadata) ==
    IF id \in DOMAIN coll THEN coll
    ELSE coll @@ (id :> [document |-> document, metadata |-> metadata])

\* The loop of index_bugs, lines 203-222, from position idx (0-based) on.
RECURSIVE index_loop(_, _, _)
index_loop(coll, bug_entries, idx) ==
    IF idx >= Len(bug_entries) THEN coll
    ELSE index_loop(collection_add(coll,
                                   bug_id(idx, bug_entries[idx + 1]),
                                   searchable_text(bug_entries[idx + 1]),
                                   to_dict(bug_entries[idx + 1])),
                    bug_entries, idx + 1)

Sources == <<"personal", "stackoverflow">>

IdBefore(a, b) ==
    \/ a[2] < b[2]
    \/ a[2] = b[2]
         /\ (CHOOSE r \in 1..Len(Sources) : Sources[r] = a[3])
              < (CHOOSE r \in 1..Len(Sources) : Sources[r] = b[3])

\* collection.query(query_embeddings=[e], n_results=n), lines 240-243: the
\* nearest min(n, count) records by ascending distance, one inner list per
\* query embedding.  Records at the same distance come in id order, or in the
\* opposite order when `backwards`.
collection_query(coll, distance, n_results, backwards) ==
    LET ids     == DOMAIN coll
        n       == Min(n_results, Cardinality(ids))
        d(id)   == distance[coll[id].document]
        rank(id) == 1 + Cardinality({j \in ids :
                        \/ d(j) < d(id)
                        \/ d(j) = d(id) /\ j # id
                             /\ (IdBefore(j, id) <=> ~backwards)})
        nearest == [k \in 1..n |-> CHOOSE id \in ids : rank(id) = k]
    IN  [ids       |-> <<nearest>>,
         metadatas |-> <<[k \in 1..n |-> coll[nearest[k]].metadata]>>,
         distances |-> <<[k \in 1..n |-> d(nearest[k])]>>]

Similarity_is_distance(distance) == distance

\* 1 - distance, line 250 (in hundredths)
Similarity(distance) == 100 - distance

\* Lines 246-251: one copy per neighbour, in the store's order.
similar_bugs(query_result) ==
    IF query_result.metadatas # <<>>
    THEN [k \in 1..Len(query_result.metadatas[1]) |->
             SetItem(query_result.metadatas[1][k], "similarity_score",
                     Similarity(query_result.distances[1][k]))]
    ELSE <<>>

-----------------------------------------------------------------------------
(* bug_detective.py: the inputs of the model *)

\* The longest batch index_bugs is given in the model.
MaxBatch == 2

BugEntries ==
    { [error_pattern |-> <<"Type", "Error", ":", " ", "x">>,
       context |-> <<"c1">>, language |-> <<"python">>, framework |-> "None",
       problem_description |-> <<"p1">>, solution |-> "s1",
       source |-> "stackoverflow", confidence_score |-> 45,
       tags |-> << <<"t1">>, <<"t2">> >>, url |-> "None"],
      [error_pattern |-> <<"Key", "Error", ":", " ", "k">>,
       context |-> <<"c2">>, language |-> <<"python">>, framework |-> "None",
       problem_description |-> <<"p2">>, solution |-> "s2",
       source |-> "stackoverflow", confidence_score |-> 30,
       tags |-> << <<"t1">> >>, url |-> "None"],
      [error_pattern |-> <<"x", "Exception", ":", " ", "y">>,
       context |-> <<"c3">>, language |-> <<"javascript">>,
       framework |-> "django",
       problem_description |-> <<"p3">>, solution |-> "s3",
       source |-> "personal", confidence_score |-> 10,
       tags |-> <<>>, url |-> "u3"] }

Batches == UNION {[1..n -> BugEntries] : n \in 0..MaxBatch}

\* An error pattern alone, a stack trace around one, a text without any.
DetectiveQueries ==
    { <<"Type", "Error", ":", " ", "x">>,
      <<"Traceback", ":", "\n", " ", "Key", "Error", ":", " ", "k", "\n", "x">>,
      <<"it", " ", "broke">> }

\* A text longer than the fallback keeps, with no pattern in it and a line
\* break inside: 201 one-character pieces.
LongText == [i \in 1..(FallbackChars + 1) |-> IF i = 3 THEN "\n" ELSE "x"]

\* The texts extract_error_pattern is called with: the queries, a text whose
\* first line has a pattern of lower priority than its second line, a text
\* with two matches of one pattern, a generic label, and the long text.
ErrorTexts ==
    DetectiveQueries \cup
    { <<"x", "Exception", ":", " ", "a", "\n", "Key", "Error", ":", " ", "k">>,
      <<"a", " ", "Os", "Error", ":", " ", "b", " ", "Io", "Error", ":", " ", "c">>,
      <<"Error", ":", " ", "e", "\n", "Exception", ":", " ", "f">>,
      LongText }

DetectiveLanguages == { None, <<"python">> }

\* top_k: one, generate_solution's 3 (line 258) and the default 5 (line 226).
GenerationTopK == 3
DefaultTopK == 5
TopKs == {1, GenerationTopK, DefaultTopK}

\* Cosine distances in hundredths (0 to 2).
Distances == {0, 40, 130}

Documents(coll) == {coll[id].document : id \in DOMAIN coll}

\* The distances an embedding model can give the stored documents from the
\* query text: a text is at distance 0 from itself.
Geometries(coll, text) ==
    {g \in [Documents(coll) -> Distances] :
        \A doc \in Documents(coll) : doc = text => g[doc] = 0}

-----------------------------------------------------------------------------
(* bug_detective.py: the operations *)

\* index_bugs(bug_entries), lines 199-224.  The embedding model or the store
\* may fail at any entry (the store validates what it is given; nothing in
\* lines 199-224 catches): `done` entries are stored before the call raises.
IndexBugs ==
    /\ program = "detective" /\ Idle
    /\ \E bug_entries \in Batches, done \in 0..MaxBatch :
          /\ done <= Len(bug_entries)
          /\ collection' = index_loop(collection, SubSeq(bug_entries, 1, done), 0)
          /\ call' = [op |-> "index_bugs", bug_entries |-> bug_entries,
                      done |-> done]
          /\ raised' = (done < Len(bug_entries))
    /\ results' = <<>> /\ origin' = <<>> /\ scores' = <<>>
    /\ UNCHANGED <<program, bugs_database, uploaded_file>>

\* What a call of search_similar_bugs leaves when an exception leaves it.
Raises(text) ==
    [raised |-> TRUE, search_text |-> text, similar_bugs |-> <<>>,
     ids |-> <<>>, distances |-> <<>>]

\* What it leaves when it returns similar_bugs, line 253.
Returns(text, query_result) ==
    [raised |-> FALSE, search_text |-> text,
     similar_bugs |-> similar_bugs(query_result),
     ids |-> query_result.ids[1], distances |-> query_result.distances[1]]

search_similar_bugs_swallowing(coll, error_query, language, top_k, available, distance, backwards) ==
    LET text == search_text(extract_error_pattern(error_query), language)
    IN  IF ~available
        THEN [Raises(text) EXCEPT !.raised = FALSE]
        ELSE Returns(text, collection_query(coll, distance, top_k, backwards))

search_similar_bugs_raising_when_empty(coll, error_query, language, top_k, available, distance, backwards) ==
    LET text == search_text(extract_error_pattern(error_query), language)
    IN  IF ~available \/ DOMAIN coll = {}
        THEN Raises(text)
        ELSE Returns(text, collection_query(coll, distance, top_k, backwards))

\* search_similar_bugs(error_query, language, top_k), lines 226-253, on the
\* collection coll.  `available` is whether the embedding model and the store
\* answer; when they do not, encode (line 237) or query (line 240) raises, and
\* nothing in lines 228-253 catches.
search_similar_bugs(coll, error_query, language, top_k, available, distance, backwards) ==
    LET text == search_text(extract_error_pattern(error_query), language)
    IN  IF ~available
        THEN Raises(text)
        ELSE Returns(text, collection_query(coll, distance, top_k, backwards))

\* A call of extract_error_pattern(error_text), lines 182-197.
ExtractErrorPattern ==
    /\ program = "detective" /\ Idle
    /\ \E error_text \in ErrorTexts :
          call' = [op |-> "extract_error_pattern", error_text |-> error_text,
                   returned |-> extract_error_pattern(error_text)]
    /\ UNCHANGED <<program, bugs_database, uploaded_file, collection, results, origin,
                   scores, raised>>

\* A call of search_similar_bugs.
SearchSimilarBugs ==
    /\ program = "detective" /\ Idle
    /\ \E error_query \in DetectiveQueries, language \in DetectiveLanguages,
          top_k \in TopKs, available \in BOOLEAN, backwards \in BOOLEAN :
          \E distance \in Geometries(collection,
                 search_text(extract_error_pattern(error_query), language)) :
          \E r \in {search_similar_bugs(collection, error_query, language,
                                        top_k, available, distance, backwards)} :
              /\ call' = [op |-> "search_similar_bugs",
                          error_query |-> error_query, language |-> language,
                          top_k |-> top_k, available |-> available,
                          search_text |-> r.search_text,
                          distances |-> r.distances]
              /\ results' = r.similar_bugs
              /\ origin' = r.ids
              /\ raised' = r.raised
    /\ scores' = <<>>
    /\ UNCHANGED <<program, bugs_database, uploaded_file, collection>>

-----------------------------------------------------------------------------
(* bug_detective.py: generate_solution *)

\* The decimal digits of a number, as one piece.
Str(n) == ToString(n)

\* f"{x:.2f}" of a number given in hundredths.
Format2f(h) ==
    LET a == IF h < 0 THEN 0 - h ELSE h
    IN  (IF h < 0 THEN <<"-">> ELSE <<>>)
          \o <<Str(a \div 100), ".", Str((a % 100) \div 10), Str(a % 10)>>

\* Line 261
ContextHeader == <<"Here are similar bugs and their solutions:", "\n", "\n">>

\* The f-string of lines 263-270 for the bug at ordinal i.
ContextBlock(i, bug) ==
    <<"\n", "Bug", " ", Str(i), " ", "(", "Confidence", ":", " ",
      Str(bug.confidence_score), ",", " ", "Similarity", ":", " ">>
      \o Format2f(bug.similarity_score) \o <<")", ":", "\n">>
      \o <<"Error", ":", " ">> \o bug.error_pattern \o <<"\n">>
      \o <<"Context", ":", " ">> \o bug.context \o <<"\n">>
      \o <<"Solution", ":", " ", bug.solution, "\n">>
      \o <<"Source", ":", " ", bug.source, "\n">>
      \o <<"---", "\n">>

RECURSIVE ContextBlocks_from_zero(_, _)
ContextBlocks_from_zero(bugs, i) ==
    IF i > Len(bugs) THEN <<>>
    ELSE ContextBlock(i - 1, bugs[i]) \o ContextBlocks_from_zero(bugs, i + 1)

\* The loop of lines 262-270 from ordinal i on: enumerate(similar_bugs, 1).
RECURSIVE ContextBlocks(_, _)
ContextBlocks(bugs, i) ==
    IF i > Len(bugs) THEN <<>>
    ELSE ContextBlock(i, bugs[i]) \o ContextBlocks(bugs, i + 1)

\* rag_context, lines 261-270
rag_context(bugs) == ContextHeader \o ContextBlocks(bugs, 1)

\* Line 312; the first piece stands for the books emoji.
SourcesHeader == <<"\n", "\n", "U+1F4DA", " ", "**Similar Cases Found:**", "\n">>

\* The loop of lines 313-314 from position i on.
RECURSIVE SourceLines(_, _)
SourceLines(bugs, i) ==
    IF i > Len(bugs) THEN <<>>
    ELSE <<"-", " ">> \o bugs[i].error_pattern
           \o <<" ", "(", "Score", ":", " ", Str(bugs[i].confidence_score),
                ")", "\n">>
           \o SourceLines(bugs, i + 1)

\* Line 319
ErrorPrefix == <<"Error generating solution", ":", " ">>

\* What the generation service does with the prompt: it answers with a text,
\* or the call raises an exception with a message.
Completions ==
    { [ok |-> TRUE, text |-> <<"answer">>],
      [ok |-> TRUE, text |-> <<>>],
      [ok |-> FALSE, text |-> <<"rate", " ", "limit">>] }

NoCompletion == [ok |-> FALSE, text |-> None]

\* What a call of generate_solution leaves when the exception of the
\* retrieval leaves it: nothing after line 258 has run.
RaisesInRetrieval ==
    [raised |-> TRUE, similar_bugs |-> <<>>, ids |-> <<>>,
     rag_context |-> None, completion |-> NoCompletion, returned |-> None]

AfterRetrieval_without_try(found, completion) ==
    [raised |-> ~completion.ok, similar_bugs |-> found.similar_bugs,
     ids |-> found.ids, rag_context |-> rag_context(found.similar_bugs),
     completion |-> completion,
     returned |-> IF completion.ok
                  THEN completion.text \o SourcesHeader
                         \o SourceLines(found.similar_bugs, 1)
                  ELSE None]

\* Lines 260-319, after the retrieval returned.
AfterRetrieval(found, completion) ==
    [raised |-> FALSE, similar_bugs |-> found.similar_bugs, ids |-> found.ids,
     rag_context |-> rag_context(found.similar_bugs),
     completion |-> completion,
     returned |-> IF completion.ok
                  THEN completion.text \o SourcesHeader
                         \o SourceLines(found.similar_bugs, 1)
                  ELSE ErrorPrefix \o completion.text]

generate_solution_catching_retrieval(coll, error_query, language, available, distance, backwards, completion) ==
    LET found == search_similar_bugs(coll, error_query, language,
                                     GenerationTopK, available, distance,
                                     backwards)
    IN  IF found.raised
        THEN [RaisesInRetrieval EXCEPT !.raised = FALSE,
                                       !.returned = ErrorPrefix \o <<"down">>]
        ELSE AfterRetrieval(found, completion)

\* generate_solution(error_query, language, context), lines 255-319.  The
\* retrieval of line 258 is outside the try of line 291; the prompt of lines
\* 273-289 wraps rag_context and goes to the generation service only.
generate_solution(coll, error_query, language, available, distance, backwards, completion) ==
    LET found == search_similar_bugs(coll, error_query, language,
                                     GenerationTopK, available, distance,
                                     backwards)
    IN  IF found.raised
        THEN RaisesInRetrieval
        ELSE AfterRetrieval(found, completion)

\* A call of generate_solution.
GenerateSolution ==
    /\ program = "detective" /\ Idle
    /\ \E error_query \in DetectiveQueries, language \in DetectiveLanguages,
          available \in BOOLEAN, backwards \in BOOLEAN,
          completion \in Completions :
          \E distance \in Geometries(collection,
                 search_text(extract_error_pattern(error_query), language)) :
          \E r \in {generate_solution(collection, error_query, language,
                                      available, distance, backwards,
                                      completion)} :
              /\ call' = [op |-> "generate_solution",
                          error_query |-> error_query, language |-> language,
                          available |-> available,
                          completion |-> r.completion,
                          rag_context |-> r.rag_context,
                          returned |-> r.returned]
              /\ results' = r.similar_bugs
              /\ origin' = r.ids
              /\ raised' = r.raised
    /\ scores' = <<>>
    /\ UNCHANGED <<program, bugs_database, uploaded_file, collection>>

-----------------------------------------------------------------------------
(* bug_detective.py: the personal-bug file                                 *)
(*                                                                         *)
(* A JSON document is a tree of typed nodes.  The None object of Python is *)
(* "None" in the fields framework and url, whose strings are atomic.       *)

JsonNull == [type |-> "null"]
JsonString(s) == [type |-> "string", value |-> s]
JsonNumber(n) == [type |-> "number", value |-> n]
JsonArray(items) == [type |-> "array", items |-> items]
JsonObject(members) == [type |-> "object", members |-> members]

\* json.dump of the value v of the key `key` of a bug dictionary.
json_dump_value(key, v) ==
    CASE key = "tags" -> JsonArray([i \in 1..Len(v) |-> JsonString(v[i])])
      [] key = "confidence_score" -> JsonNumber(v)
      [] key \in {"framework", "url"} ->
            IF v = "None" THEN JsonNull ELSE JsonString(v)
      [] OTHER -> JsonString(v)

\* json.dump(bugs, f), data_collector.py line 248: a list of dictionaries
\* becomes an array of objects with the same keys.
json_dump(bugs) ==
    JsonArray([i \in 1..Len(bugs) |->
        JsonObject([key \in DOMAIN bugs[i] |->
                        json_dump_value(key, bugs[i][key])])])

\* json.load of one node below the objects of the array.
json_load_value(node) ==
    CASE node.type = "null" -> "None"
      [] node.type = "array" ->
            [i \in 1..Len(node.items) |-> node.items[i].value]
      [] OTHER -> node.value

\* json.load(f), line 148: an array of objects becomes a list of dictionaries.
json_load(document) ==
    [i \in 1..Len(document.items) |->
        [key \in DOMAIN document.items[i].members |->
            json_load_value(document.items[i].members[key])]]

\* The fields of the dataclass BugEntry, lines 20-32: url alone has a default.
RequiredFields ==
    {"error_pattern", "context", "language", "framework",
     "problem_description", "solution", "source", "confidence_score", "tags"}

BugEntryFields == RequiredFields \cup {"url"}

\* BugEntry(**item): the generated __init__ raises TypeError for a missing
\* required argument and for an unexpected keyword; it checks no types.
TypeError(item) ==
    \/ ~(RequiredFields \subseteq DOMAIN item)
    \/ ~(DOMAIN item \subseteq BugEntryFields)

BugEntry(item) ==
    [key \in BugEntryFields |->
        IF key \in DOMAIN item THEN item[key] ELSE "None"]

\* The loop of lines 149-151 inside the try of line 146: the first item that
\* raises ends the loop, and line 157 returns the entries made so far.
RECURSIVE load_loop(_, _, _)
load_loop(data, i, entries) ==
    IF i > Len(data) THEN entries
    ELSE IF TypeError(data[i]) THEN entries
    ELSE load_loop(data, i + 1, Append(entries, BugEntry(data[i])))

\* No file at the path given.
NoFile == [type |-> "missing"]

\* load_personal_bugs(json_file), lines 142-157
load_personal_bugs(file) ==
    IF file = NoFile THEN <<>>
    ELSE load_loop(json_load(file), 1, <<>>)

\* A file with a record without solution between two complete records.
MalformedMiddleFile ==
    LET e == CHOOSE b \in [1..2 -> BugEntries] :
                 b[1].source = "stackoverflow" /\ b[2].source = "personal"
        whole(k) == json_dump_value(k, to_dict(e[1])[k])
    IN  JsonArray(
          << json_dump(<<to_dict(e[1])>>).items[1],
             JsonObject([k \in RequiredFields \ {"solution"} |-> whole(k)]),
             json_dump(<<to_dict(e[2])>>).items[1] >>)

\* The template of data_collector.py, lines 286-302: one record with the ten
\* fields of BugEntry and the keys date_fixed and notes.
template ==
    << [error_pattern |-> <<"Your", " ", "error", " ", "message", " ", "here">>,
        context |-> <<"What", " ", "you", " ", "were", " ", "trying">>,
        language |-> <<"python/javascript/etc">>,
        framework |-> "django/react/etc (optional)",
        problem_description |-> <<"Detailed", " ", "description">>,
        solution |-> "How you fixed it",
        source |-> "personal",
        confidence_score |-> 50,
        tags |-> << <<"tag1">>, <<"tag2">> >>,
        url |-> "None",
        date_fixed |-> "2024-01-01",
        notes |-> "Additional notes about the fix"] >>

\* create_personal_bug_template(), data_collector.py lines 283-311: the file
\* it writes with json.dump.
create_personal_bug_template == json_dump(template)

\* The files of the model: every batch saved with to_dict and json.dump, the
\* file with a malformed record, the template file, and a path without a
\* file.
PersonalFiles ==
    {json_dump([i \in 1..Len(b) |-> to_dict(b[i])]) : b \in Batches}
      \cup {MalformedMiddleFile, create_personal_bug_template, NoFile}

\* A call of load_personal_bugs.
LoadPersonalBugs ==
    /\ program = "detective" /\ Idle
    /\ \E file \in PersonalFiles :
          call' = [op |-> "load_personal_bugs", file |-> file,
                   returned |-> load_personal_bugs(file)]
    /\ UNCHANGED <<program, bugs_database, uploaded_file, collection, results, origin,
                   scores, raised>>

-----
(* bug_detective_ui.py: the operations                                     *)
(*                                                                         *)
(* Every click runs the script of main() from the top.  st.rerun() ends    *)
(* the run and starts the next one at once; while a file is in the         *)
(* uploader, that next run enters the block of lines 254-261 again.        *)

\* The uploader without a file.
NoUpload == [present |-> FALSE]

\* st.rerun() was called and the run it starts finds a file in the uploader.
RerunPending == uploaded_file.present /\ uploaded_file.rerun

\* The uploader after st.rerun(): the file, if there is one, stays in it.
after_rerun(upload) ==
    IF upload.present THEN [upload EXCEPT !.rerun = TRUE] ELSE upload

\* Lines 226-230: the "Python Bugs" button.
LoadPythonBugs ==
    /\ program = "ui" /\ Idle /\ ~RerunPending
    /\ Len(bugs_database) + Len(create_sample_bugs_python) <= MaxDatabase
    /\ bugs_database' = bugs_database \o create_sample_bugs_python
    /\ uploaded_file' = after_rerun(uploaded_file)
    /\ UNCHANGED <<program, collection, call, results, origin, scores, raised>>

\* Lines 233-237: the "JavaScript Bugs" button.
LoadJavaScriptBugs ==
    /\ program = "ui" /\ Idle /\ ~RerunPending
    /\ Len(bugs_database) + Len(create_sample_bugs_javascript) <= MaxDatabase
    /\ bugs_database' = bugs_database \o create_sample_bugs_javascript
    /\ uploaded_file' = after_rerun(uploaded_file)
    /\ UNCHANGED <<program, collection, call, results, origin, scores, raised>>

\* Lines 239-242: the "Clear All Data" button.
ClearAllData ==
    /\ program = "ui" /\ Idle /\ ~RerunPending
    /\ bugs_database' = <<>>
    /\ uploaded_file' = after_rerun(uploaded_file)
    /\ UNCHANGED <<program, collection, call, results, origin, scores, raised>>

\* Lines 248-259: the user puts a file into the uploader; the run this starts
\* parses it, appends its records and calls st.rerun().
UploadCustomBugs ==
    /\ program = "ui" /\ Idle /\ ~uploaded_file.present
    /\ \E custom_bugs \in UploadedFiles :
          /\ Len(bugs_database) + Len(custom_bugs) <= MaxDatabase
          /\ bugs_database' = bugs_database \o custom_bugs
          /\ uploaded_file' = [present |-> TRUE, file |-> custom_bugs,
                               rerun |-> TRUE]
    /\ UNCHANGED <<program, collection, call, results, origin, scores, raised>>

\* Lines 254-261 in the run st.rerun() started, the file still in the
\* uploader.  Whether json.load reads the file again depends on the Streamlit
\* build: when the uploader hands out the file rewound, the records are
\* appended again and st.rerun() is called again; when it hands out the
\* buffer at its end, json.load raises and line 261 reports the error.
RerunWithUploadedFile ==
    /\ program = "ui" /\ Idle /\ RerunPending
    /\ \E rewound \in BOOLEAN :
          IF rewound
          THEN /\ Len(bugs_database) + Len(uploaded_file.file) <= MaxDatabase
               /\ bugs_database' = bugs_database \o uploaded_file.file
               /\ uploaded_file' = after_rerun(uploaded_file)
          ELSE /\ bugs_database' = bugs_database
               /\ uploaded_file' = [uploaded_file EXCEPT !.rerun = FALSE]
    /\ UNCHANGED <<program, collection, call, results, origin, scores, raised>>

\* The user takes the file out of the uploader.
RemoveUploadedFile ==
    /\ program = "ui" /\ Idle /\ uploaded_file.present /\ ~RerunPending
    /\ uploaded_file' = NoUpload
    /\ UNCHANGED <<program, bugs_database, collection, call, results, origin,
                   scores, raised>>

\* A call of simple_search(error_query, language), lines 152-187.
SimpleSearch ==
    /\ program = "ui" /\ Idle
    /\ \E error_query \in ErrorQueries, language \in LanguageHints :
          \E r \in {simple_search(bugs_database, error_query, language)} :
              /\ call' = [op |-> "simple_search", error_query |-> error_query,
                          language |-> language]
              /\ results' = [i \in 1..Len(r.ranked) |-> r.ranked[i].bug]
              /\ origin' = [i \in 1..Len(r.ranked) |-> r.ranked[i].idx]
              /\ scores' = r.scores
              /\ raised' = r.raised
              /\ bugs_database' = r.db
    /\ UNCHANGED <<program, uploaded_file, collection>>

\* The call is over: what it returned (a local of the caller) is gone.
Return ==
    /\ ~Idle
    /\ call' = NoCall
    /\ results' = <<>> /\ origin' = <<>> /\ scores' = <<>> /\ raised' = FALSE
    /\ UNCHANGED <<program, bugs_database, uploaded_file, collection>>

-----------------------------------------------------------------------------
Init ==
    /\ program \in {"ui", "detective"}
    /\ bugs_database = <<>>
    /\ uploaded_file = NoUpload
    /\ collection = <<>>
    /\ call = NoCall
    /\ results = <<>>
    /\ origin = <<>>
    /\ scores = <<>>
    /\ raised = FALSE

Next ==
    \/ LoadPythonBugs
    \/ LoadJavaScriptBugs
    \/ ClearAllData
    \/ UploadCustomBugs
    \/ RerunWithUploadedFile
    \/ RemoveUploadedFile
    \/ SimpleSearch
    \/ IndexBugs
    \/ ExtractErrorPattern
    \/ SearchSimilarBugs
    \/ GenerateSolution
    \/ LoadPersonalBugs
    \/ Return

Spec == Init /\ [][Next]_vars

-----------------------------------------------------------------------------
(* The lexical ranker: what simple_search promises, stated without the     *)
(* operators above.                                                        *)

Searched == call.op = "simple_search"

\* x occurs in s when both are lower-cased.
OccursIn(x, s) ==
    \E off \in 0..(Len(s) - Len(x)) :
        \A k \in 1..Len(x) : LowerChar(s[off + k]) = LowerChar(x[k])

\* q[a..b] is a whitespace-delimited token of q.
IsToken(q, a, b) ==
    /\ 1 <= a /\ a <= b /\ b <= Len(q)
    /\ \A k \in a..b : q[k] \notin {" ", "\t", "\n"}
    /\ a = 1 \/ q[a - 1] \in {" ", "\t", "\n"}
    /\ b = Len(q) \/ q[b + 1] \in {" ", "\t", "\n"}

SomeTokenOccursIn(q, s) ==
    \E a \in 1..Len(q), b \in 1..Len(q) :
        IsToken(q, a, b) /\ OccursIn(SubSeq(q, a, b), s)

\* The tags with one space between each two.
RECURSIVE SpaceJoined(_)
SpaceJoined(tags) ==
    IF tags = <<>> THEN <<>>
    ELSE IF Len(tags) = 1 THEN tags[1]
    ELSE SpaceJoined(SubSeq(tags, 1, Len(tags) - 1)) \o <<" ">> \o tags[Len(tags)]

HintGiven(language) == language # None /\ Len(language) > 0

SameIgnoringCase(x, y) ==
    Len(x) = Len(y) /\ \A k \in 1..Len(x) : LowerChar(x[k]) = LowerChar(y[k])

PatternBonus(q, bug) == IF OccursIn(q, bug.error_pattern) THEN 50 ELSE 0

LanguageBonus(language, bug) ==
    IF HintGiven(language) /\ SameIgnoringCase(language, bug.language)
    THEN 20 ELSE 0

ContextBonus(q, bug) == IF SomeTokenOccursIn(q, bug.context) THEN 10 ELSE 0

TagsBonus(q, bug) ==
    IF SomeTokenOccursIn(q, SpaceJoined(bug.tags)) THEN 10 ELSE 0

\* C1: the score simple_search computes for a stored entry is the sum of four
\* independent bonuses, every comparison made on lower-cased text: 50 when the
\* whole query occurs in error_pattern, 20 when a language hint is given and
\* equals the entry's language, 10 when some whitespace-delimited token of the
\* query occurs in context, 10 when some token occurs in the tags joined by
\* single spaces.  A query equal to the entry's error_pattern scores at least
\* 50, and without a matching hint no 20 is added.
C1_ScoreIsSumOfBonuses ==
    Searched =>
        \A i \in 1..Len(scores) :
            LET bug == bugs_database[i]
                q   == call.error_query
            IN  /\ scores[i] = PatternBonus(q, bug)
                             + LanguageBonus(call.language, bug)
                             + ContextBonus(q, bug)
                             + TagsBonus(q, bug)
                /\ q = bug.error_pattern => scores[i] >= 50
                /\ (~HintGiven(call.language)
                      \/ ~SameIgnoringCase(call.language, bug.language))
                   => scores[i] \in {0, 10, 20, 50, 60, 70}

\* A search that scored an entry with upper-case letters at 80 (pattern,
\* language and context, the token spanning two tags not counted).
C1_Witness ==
    /\ Searched /\ ~raised
    /\ \E i \in 1..Len(scores) :
          /\ scores[i] = 80
          /\ bugs_database[i].error_pattern # lower(bugs_database[i].error_pattern)
          /\ Len(bugs_database[i].tags) > 1
    /\ \E j \in 1..Len(scores) : scores[j] = 0

\* C2: no returned entry has score 0, and an entry whose score is 0 is not
\* returned.
C2_ZeroScoreExcluded ==
    Searched =>
        /\ \A k \in 1..Len(results) : results[k].relevance_score > 0
        /\ \A i \in 1..Len(scores) :
              scores[i] = 0 => \A k \in 1..Len(origin) : origin[k] # i

C2_Witness ==
    /\ Searched /\ ~raised
    /\ Len(results) > 0 /\ Len(results) < TopN
    /\ \E i \in 1..Len(scores) : scores[i] = 0

\* C3: the results are in descending order of relevance_score, and two results
\* of equal score are in the order their records have in the database.
C3_DescendingAndStable ==
    Searched =>
        \A k \in 1..Len(results), l \in 1..Len(results) :
            k < l =>
                /\ results[k].relevance_score >= results[l].relevance_score
                /\ results[k].relevance_score = results[l].relevance_score
                   => origin[k] < origin[l]

C3_Witness ==
    /\ Searched /\ Len(results) = 3
    /\ results[1].relevance_score > results[2].relevance_score
    /\ results[2].relevance_score = results[3].relevance_score

\* The database indices of the entries with a positive score.
Positive == {i \in 1..Len(scores) : scores[i] > 0}

\* C4: the results are the first min(3, n) of the n positively scored entries:
\* never more than 3, each a copy of a distinct positively scored record with
\* its score, and no omitted entry scores strictly higher than a returned one.
C4_TopThree ==
    (Searched /\ ~raised) =>
        /\ Len(results) = Min(3, Cardinality(Positive))
        /\ \A k \in 1..Len(results) :
              /\ origin[k] \in Positive
              /\ results[k].relevance_score = scores[origin[k]]
              /\ \A f \in DOMAIN bugs_database[origin[k]] :
                    f # "relevance_score" => results[k][f] = bugs_database[origin[k]][f]
              /\ \A l \in 1..Len(results) : k # l => origin[k] # origin[l]
        /\ \A i \in Positive :
              (\A k \in 1..Len(origin) : origin[k] # i)
                 => \A k \in 1..Len(results) : scores[i] <= results[k].relevance_score

\* More than three positive scores, and an omitted one below a returned one.
C4_Witness ==
    /\ Searched /\ ~raised
    /\ Cardinality(Positive) > 3
    /\ \E i \in Positive :
          /\ \A k \in 1..Len(origin) : origin[k] # i
          /\ scores[i] < results[1].relevance_score

\* The database of the end-to-end scenario and a query for it.
Scenario ==
    /\ Searched /\ ~raised
    /\ Len(bugs_database) = 3
    /\ bugs_database[1].language = PYTHON
    /\ bugs_database[2].language = JAVASCRIPT
    /\ bugs_database[3].language = JAVASCRIPT
    /\ SameIgnoringCase(call.language, JAVASCRIPT)
    /\ OccursIn(call.error_query, bugs_database[2].error_pattern)
    /\ ~OccursIn(call.error_query, bugs_database[1].error_pattern)
    /\ ~OccursIn(call.error_query, bugs_database[3].error_pattern)

\* C5: with entries of language python, javascript, javascript, the hint
\* javascript and a query occurring only in the second entry's error_pattern,
\* the second entry is ranked above the third.
C5_SecondAboveThird ==
    Scenario =>
        \E k \in 1..Len(origin), l \in 1..Len(origin) :
            k < l /\ origin[k] = 2 /\ origin[l] = 3

\* The scenario, the third entry holding both token bonuses.
C5_Witness ==
    /\ Scenario
    /\ scores[3] = 40

-----------------------------------------------------------------------------
(* Retrieval from the embedding index *)

SearchedIndex == call.op = "search_similar_bugs"

Indexed == call.op = "index_bugs"

EmptyIndex == DOMAIN collection = {}

\* A result without the similarity_score key it was given.
StoredPart(result) == [k \in DOMAIN result \ {"similarity_score"} |-> result[k]]

\* C6: retrieval from an empty bug database or an empty index returns an
\* empty sequence and does not raise, whatever the query text and the
\* language hint: simple_search on an empty database, and search_similar_bugs
\* on a collection with zero entries whose embedding model and store answer
\* (their own failures are the case of C7).
C6_EmptyReturnsEmpty ==
    /\ (Searched /\ bugs_database = <<>>) => (results = <<>> /\ ~raised)
    /\ (SearchedIndex /\ EmptyIndex /\ call.available)
          => (results = <<>> /\ ~raised)

C6_Witness ==
    /\ SearchedIndex /\ EmptyIndex /\ call.available
    /\ Truthy(call.language) /\ call.top_k = DefaultTopK
    /\ results = <<>> /\ ~raised

C8_LastInsertedIsStored ==
    Indexed =>
        \A i \in 1..call.done :
            /\ bug_id(i - 1, call.bug_entries[i]) \in DOMAIN collection
            /\ collection[bug_id(i - 1, call.bug_entries[i])]
                 = [document |-> searchable_text(call.bug_entries[i]),
                    metadata |-> to_dict(call.bug_entries[i])]

\* C9 as stated: a query made of the fields of an indexed entry embeds exactly
\* the text that was embedded when the entry was inserted.
C9_QueryTextIsInsertText ==
    SearchedIndex =>
        \A id \in DOMAIN collection :
            (/\ call.error_query = collection[id].metadata.error_pattern
             /\ call.language = collection[id].metadata.language)
                => call.search_text = collection[id].document

\* C10: search_similar_bugs returns at most top_k results, one per neighbour
\* the store returned and in the store's order; each similarity_score is
\* 1 minus the returned distance (100 - d in hundredths), so with neighbours
\* in ascending distance the similarity_score never increases along the list.
C10_TopKInStoreOrder ==
    (SearchedIndex /\ ~raised) =>
        /\ Len(results) <= call.top_k
        /\ Len(results) = Len(call.distances)
        /\ Len(results) = Len(origin)
        /\ \A k \in 1..Len(results) :
              /\ StoredPart(results[k]) = collection[origin[k]].metadata
              /\ results[k].similarity_score = 100 - call.distances[k]
        /\ \A k \in 1..(Len(results) - 1) :
              call.distances[k] <= call.distances[k + 1]
                 => results[k].similarity_score
                      >= results[k + 1].similarity_score

C10_Witness ==
    /\ SearchedIndex /\ ~raised
    /\ Len(results) = GenerationTopK
    /\ Cardinality(DOMAIN collection) > GenerationTopK
    /\ results[1].similarity_score > results[2].similarity_score
    /\ results[2].similarity_score = results[3].similarity_score

-----------------------------------------------------------------------------
(* The error signature *)

Extracted == call.op = "extract_error_pattern"

\* Pattern p of the four (1: <Identifier>Error: ..., 2: <Identifier>Exception:
\* ..., 3: Error: ..., 4: Exception: ...) has a match in t that starts at i.
LabelAt(t, k, word) ==
    /\ k + 3 <= Len(t)
    /\ <<t[k], t[k + 1], t[k + 2]>> = <<word, ":", " ">>
    /\ t[k + 3] # "\n"

PatternStartsAt(t, p, i) ==
    LET word == IF p \in {1, 3} THEN "Error" ELSE "Exception"
    IN  IF p \in {1, 2}
        THEN \E k \in (i + 1)..Len(t) :
                 /\ LabelAt(t, k, word)
                 /\ \A j \in i..(k - 1) :
                       t[j] \notin {" ", "\n", "\t", ":", ",", "'", ".", "-"}
        ELSE LabelAt(t, i, word)

SomePatternMatches(t) ==
    \E p \in 1..4, i \in 1..Len(t) : PatternStartsAt(t, p, i)

\* The number of the line piece i of t is on, from 0.
LineOf(t, i) == Cardinality({k \in 1..(i - 1) : t[k] = "\n"})

\* sig is the rest of the line of t from piece i on.
IsRestOfLine(sig, t, i) ==
    /\ i + Len(sig) - 1 <= Len(t)
    /\ \A k \in 1..Len(sig) : sig[k] = t[i + k - 1] /\ sig[k] # "\n"
    /\ (i + Len(sig) <= Len(t) => t[i + Len(sig)] = "\n")

\* sig is the first 200 characters of t (all of t when it is shorter).
IsFirst200(sig, t) ==
    /\ Len(sig) = IF Len(t) < 200 THEN Len(t) ELSE 200
    /\ \A k \in 1..Len(sig) : sig[k] = t[k]

\* C11 as stated: the signature is taken from the earliest line of the text
\* on which one of the four patterns matches (on that line, the pattern of
\* highest priority, at its leftmost match); without any match it is the
\* first 200 characters.
C11_EarliestMatchingLine ==
    Extracted =>
        LET t   == call.error_text
            sig == call.returned
        IN  IF SomePatternMatches(t)
            THEN \E p \in 1..4, i \in 1..Len(t) :
                    /\ PatternStartsAt(t, p, i)
                    /\ \A q \in 1..4, j \in 1..Len(t) :
                          PatternStartsAt(t, q, j) =>
                              \/ LineOf(t, j) > LineOf(t, i)
                              \/ LineOf(t, j) = LineOf(t, i)
                                   /\ (q > p \/ (q = p /\ j >= i))
                    /\ IsRestOfLine(sig, t, i)
            ELSE IsFirst200(sig, t)

\* C11, amended: the patterns are tried in priority order over the whole
\* text; the signature comes from the pattern of highest priority that matches
\* anywhere in the text, at its leftmost match, from the start of the match to
\* the end of that line, even when a pattern of lower priority matches on an
\* earlier line.  Without any match it is the first 200 characters.
C11_PriorityThenLeftmost ==
    Extracted =>
        LET t   == call.error_text
            sig == call.returned
        IN  IF SomePatternMatches(t)
            THEN \E p \in 1..4, i \in 1..Len(t) :
                    /\ PatternStartsAt(t, p, i)
                    /\ \A q \in 1..4, j \in 1..Len(t) :
                          PatternStartsAt(t, q, j) =>
                              (q > p \/ (q = p /\ j >= i))
                    /\ IsRestOfLine(sig, t, i)
            ELSE IsFirst200(sig, t)

C11_Witness ==
    /\ Extracted
    /\ PatternStartsAt(call.error_text, 2, 1)
    /\ PatternStartsAt(call.error_text, 1, 7)
    /\ call.returned = <<"Key", "Error", ":", " ", "k">>

\* C12 as stated: for every query text the signature holds no newline.
C12_NeverANewline ==
    Extracted =>
        \A k \in 1..Len(call.returned) : call.returned[k] # "\n"

\* C12, amended: when one of the four patterns matches the text, the
\* signature is a single line, with no newline in it and nothing of the
\* lines after the match; when none matches, the signature is the first 200
\* characters of the raw text, line breaks included.
C12_SingleLineWhenMatched ==
    Extracted =>
        LET t   == call.error_text
            sig == call.returned
        IN  IF SomePatternMatches(t)
            THEN /\ \A k \in 1..Len(sig) : sig[k] # "\n"
                 /\ \E i \in 1..Len(t) : IsRestOfLine(sig, t, i)
            ELSE /\ IsFirst200(sig, t)
                 /\ (\E k \in 1..Len(sig) : sig[k] = "\n")
                       <=> (\E k \in 1..200 : k <= Len(t) /\ t[k] = "\n")

C12_Witness ==
    /\ Extracted
    /\ SomePatternMatches(call.error_text)
    /\ LineOf(call.error_text, Len(call.error_text)) = 2
    /\ call.returned = <<"Key", "Error", ":", " ", "k">>

-----------------------------------------------------------------------------
(* The generated answer *)

Generated == call.op = "generate_solution"

RECURSIVE Concat(_)
Concat(texts) ==
    IF texts = <<>> THEN <<>> ELSE Head(texts) \o Concat(Tail(texts))

Digit == <<"0", "1", "2", "3", "4", "5", "6", "7", "8", "9">>

\* A whole number in decimal digits, as one piece.
Decimal(n) == IF n < 10 THEN Digit[n + 1] ELSE ToString(n)

\* A number of hundredths with two decimal places, as Python's .2f writes it.
TwoPlaces(h) ==
    IF h >= 0
    THEN <<Decimal(h \div 100), ".", Digit[((h \div 10) % 10) + 1],
           Digit[(h % 10) + 1]>>
    ELSE <<"-", Decimal((0 - h) \div 100), ".",
           Digit[(((0 - h) \div 10) % 10) + 1], Digit[((0 - h) % 10) + 1]>>

\* The block of the result r at rank k.
BlockAtRank(k, r) ==
    Concat(<< <<"\n", "Bug", " ", Decimal(k), " ", "(", "Confidence", ":", " ",
                Decimal(r.confidence_score), ",", " ", "Similarity", ":", " ">>,
              TwoPlaces(r.similarity_score), <<")", ":", "\n">>,
              <<"Error", ":", " ">>, r.error_pattern, <<"\n">>,
              <<"Context", ":", " ">>, r.context, <<"\n">>,
              <<"Solution", ":", " ", r.solution, "\n">>,
              <<"Source", ":", " ", r.source, "\n">>,
              <<"---", "\n">> >>)

\* C13: the context block of generate_solution holds one block per retrieved
\* result, at most 3 of them, numbered 1..n in the order the retrieval
\* returned them; the block at rank k lists the confidence_score, similarity,
\* error_pattern, context, solution and source of the result at rank k.
C13_OneBlockPerResultInOrder ==
    (Generated /\ ~raised) =>
        /\ Len(results) <= 3
        /\ call.rag_context
             = Concat(<< <<"Here are similar bugs and their solutions:",
                           "\n", "\n">> >>
                      \o [k \in 1..Len(results) |-> BlockAtRank(k, results[k])])

C13_Witness ==
    /\ Generated /\ ~raised
    /\ Len(results) = 3
    /\ Cardinality(DOMAIN collection) > 3
    /\ results[1].similarity_score > results[2].similarity_score
    /\ results[3].similarity_score < 0
    /\ results[1].error_pattern # results[2].error_pattern

\* C14 as stated: with an empty result list the context is a non-empty
\* text with a "no results" marker, not the header written when results exist.
C14_EmptyContextIsMarked ==
    (Generated /\ ~raised /\ results = <<>>) =>
        /\ call.rag_context # <<>>
        /\ call.rag_context[1] # "Here are similar bugs and their solutions:"

\* C15: a failure of the embedding model or of the vector store during
\* search_similar_bugs leaves the call as an exception, also when the call
\* was made by generate_solution: no result list and no string is returned,
\* and the generation service is not called.
C15_RetrievalFailurePropagates ==
    /\ (SearchedIndex /\ ~call.available) => (raised /\ results = <<>>)
    /\ (Generated /\ ~call.available) =>
          /\ raised /\ results = <<>>
          /\ call.returned = None
          /\ call.rag_context = None
          /\ call.completion.text = None

C15_Witness ==
    /\ Generated /\ ~call.available /\ raised
    /\ ~EmptyIndex

\* C16: a failure of the generation service is returned as the text
\* "Error generating solution: " followed by the error text, and
\* generate_solution does not raise for it; on success the returned text is
\* the answer, the "Similar Cases Found" heading and one line per retrieved
\* bug, in retrieval order.
C16_GenerationFailureIsAString ==
    (Generated /\ call.available) =>
        /\ ~raised
        /\ call.returned # None
        /\ ~call.completion.ok =>
              call.returned
                = <<"Error generating solution", ":", " ">>
                    \o call.completion.text
        /\ call.completion.ok =>
              call.returned
                = Concat(<< call.completion.text,
                            <<"\n", "\n", "U+1F4DA", " ",
                              "**Similar Cases Found:**", "\n">> >>
                         \o [k \in 1..Len(results) |->
                               <<"-", " ">> \o results[k].error_pattern
                                 \o <<" ", "(", "Score", ":", " ",
                                      Decimal(results[k].confidence_score),
                                      ")", "\n">>])

C16_Witness ==
    /\ Generated /\ call.available
    /\ ~call.completion.ok
    /\ Len(results) >= 2
    /\ Len(call.returned) = 6

-----------------------------------------------------------------------------
(* The personal-bug file *)

Loaded == call.op = "load_personal_bugs"

\* The records of the file of the call, and whether record i is well-formed:
\* every required field is there (url may be left out).
FileRecords == IF call.file.type = "array" THEN call.file.items ELSE <<>>

WellFormed(i) ==
    \A f \in {"error_pattern", "context", "language", "framework",
              "problem_description", "solution", "source",
              "confidence_score", "tags"} :
        f \in DOMAIN FileRecords[i].members

\* C17 as stated: load_personal_bugs returns one entry per well-formed record
\* of the file, those before and those after a malformed record, in the
\* order of the file.
C17_SkipsOnlyMalformed ==
    Loaded =>
        LET good == {i \in 1..Len(FileRecords) : WellFormed(i)}
        IN  /\ Len(call.returned) = Cardinality(good)
            /\ \A k \in 1..Len(call.returned) :
                  \E i \in good :
                      /\ Cardinality({j \in good : j < i}) = k - 1
                      /\ call.returned[k].error_pattern
                           = FileRecords[i].members.error_pattern.value

\* C18: a sequence of BugEntry values written with to_dict as a JSON array
\* and read back by load_personal_bugs comes back with the same length and
\* the same value in every field, framework None and "django" and url None
\* included.
C18_RoundTrip ==
    Loaded =>
        \A b \in Batches :
            call.file = json_dump([i \in 1..Len(b) |-> to_dict(b[i])])
                => /\ Len(call.returned) = Len(b)
                   /\ \A i \in 1..Len(b) :
                         \A f \in {"error_pattern", "context", "language",
                                   "framework", "problem_description",
                                   "solution", "source", "confidence_score",
                                   "tags", "url"} :
                             /\ f \in DOMAIN call.returned[i]
                             /\ call.returned[i][f] = b[i][f]

C18_Witness ==
    /\ Loaded
    /\ Len(call.returned) = 2
    /\ call.returned[1].framework = "django" /\ call.returned[1].url = "u3"
    /\ call.returned[2].framework = "None" /\ call.returned[2].url = "None"
    /\ call.file.items[2].members.framework = [type |-> "null"]
    /\ call.file.items[2].members.url = [type |-> "null"]
    /\ Len(call.returned[2].tags) = 2

-----------------------------------------------------------------------------
(* The records of the bug database *)

\* C19 as stated: every record of the bug database carries every required
\* field, and simple_search never raises.
C19_EveryRecordValidated ==
    /\ \A i \in 1..Len(bugs_database) :
          {"error_pattern", "context", "language", "problem_description",
           "solution", "source", "confidence_score", "tags"}
              \subseteq DOMAIN bugs_database[i]
    /\ Searched => ~raised

\* C20: no step alters or removes a record of the bug database except Clear
\* All Data, which empties it: a simple_search call leaves the database as it
\* was (same records, same order, no relevance_score key added), what it
\* returns are copies, and loads and uploads only append.
C20_RecordsKeptUntilClear ==
    [][ /\ (call'.op = "simple_search" /\ call.op = "none") =>
              /\ bugs_database' = bugs_database
              /\ \A k \in 1..Len(results') :
                    /\ "relevance_score" \in DOMAIN results'[k]
                    /\ "relevance_score"
                          \notin DOMAIN bugs_database'[origin'[k]]
                    /\ \A f \in DOMAIN bugs_database'[origin'[k]] :
                          results'[k][f] = bugs_database'[origin'[k]][f]
        /\ \/ bugs_database' = <<>> /\ call' = call
           \/ /\ Len(bugs_database') >= Len(bugs_database)
              /\ \A i \in 1..Len(bugs_database) :
                    bugs_database'[i] = bugs_database[i]
      ]_vars

C20_Witness ==
    /\ Searched /\ ~raised
    /\ Len(results) = TopN
    /\ Len(bugs_database) > TopN
    /\ \A i \in 1..Len(bugs_database) :
          "relevance_score" \notin DOMAIN bugs_database[i]

-----------------------------------------------------------------------------
(* The uploader *)

\* C21 as stated: once the upload handler has appended the records of a file
\* and called st.rerun(), a run of the script that finds the same file still
\* in the uploader does not append its records again.
C21_AppendedOnce ==
    [][ (uploaded_file.present /\ uploaded_file.rerun)
            => Len(bugs_database') = Len(bugs_database) ]_vars

-----------------------------------------------------------------------------
(* The personal-bug template *)

\* C22 as stated: load_personal_bugs on the file written by
\* create_personal_bug_template returns one BugEntry per record of the
\* template, that is one entry; none is rejected.
C22_TemplateIsAccepted ==
    (Loaded /\ call.file = create_personal_bug_template) =>
        /\ Len(call.returned) = Len(call.file.items)
        /\ Len(call.returned) = 1

-----------------------------------------------------------------------------
(* The range of the relevance score *)

\* C23: the relevance_score of every result of simple_search is a multiple of
\* 10 from 10 to 90; a score of 50 or more is reached only by a record whose
\* error_pattern contains the whole lower-cased query; with the empty query
\* every record gets the 50 points of the pattern and none of the two
\* token bonuses (so 50, or 70 with the language bonus).
C23_ScoreRange ==
    (Searched /\ ~raised) =>
        /\ \A k \in 1..Len(results) :
              /\ results[k].relevance_score \in {10 * n : n \in 1..9}
              /\ results[k].relevance_score >= 50
                    => OccursIn(call.error_query,
                                bugs_database[origin[k]].error_pattern)
        /\ \A i \in 1..Len(scores) :
              scores[i] >= 50
                 => OccursIn(call.error_query, bugs_database[i].error_pattern)
        /\ call.error_query = <<>> =>
              \A i \in 1..Len(scores) :
                  scores[i] = 50 + LanguageBonus(call.language, bugs_database[i])

C23_Witness ==
    /\ Searched /\ ~raised
    /\ \E k \in 1..Len(results) : results[k].relevance_score = 90
    /\ \E k \in 1..Len(results) : results[k].relevance_score < 50

====
